---- MODULE Spec2Model ----
(***************************************************************************)
(* Checkpointed pipeline stages of the FEMA download / extract / convert / *)
(* merge scripts (notebooks/05_download_shapefiles.py,                     *)
(* 06a_extract_zip_files.py, 06b_convert_shapefiles_to_gpkg.py and         *)
(* 06d_merge_gpkg_files.py).                                               *)
(*                                                                         *)
(* One behaviour follows one stage: its log table, the artifacts it        *)
(* writes, and a sequence of process runs of the stage's script.  A run is *)
(* cut into the steps between which the process can be killed.  Runs are   *)
(* started without --limit (a testing option of script 05).                *)
(***************************************************************************)
EXTENDS Integers, Sequences, FiniteSets, TLC

VARIABLES
    stage,      \* which script this behaviour runs
    units,      \* what the stage's source query returns, in order
    log,        \* the stage's log table, in insertion (id) order
    art,        \* path -> state of the artifact at that path
    runs,       \* number of process starts so far
    pc,         \* position of the running process, "idle" when none
    flags,      \* command line of the running process
    todo,       \* list of units the run loops over
    idx,        \* 1-based loop position in todo
    res,        \* outcome of the unit being processed
    tmp,        \* merge: the run's uniquely named temporary output
    src,        \* merge: 1-based position in the append loop
    geomNone,   \* merge: sources whose analyze_schema gave no geometry column
    cnt,        \* the run's success / failure counters
    tried,      \* units whose action was invoked in this run
    logStart,   \* log when the run started
    artStart,   \* art when the run started
    moved,      \* merge: output paths on which the temp-to-final copy started
    valid,      \* keys with a success row written and no force rebuild since
    unsaved,    \* units whose log row could not be written in this run
    prev,       \* how the previous process ended
    files,      \* schema reconciliation: the group's source layers, in order
    recon,      \* schema reconciliation: what merge_gpkg_files has computed
    fetch,      \* download_file: the local file, the remote file and the call
    clean       \* 06a cleanup: the configured directories and the directory tree

vars == <<stage, units, log, art, runs, pc, flags, todo, idx, res, tmp, src,
          geomNone, cnt, tried, logStart, artStart, moved, valid, unsaved, prev,
          files, recon, fetch, clean>>

----------------------------------------------------------------------------
(* Bounds *)

MaxRuns == 2        \* process starts per behaviour
MaxSources == 3     \* source GeoPackages of one merge group
MaxFiles == 3       \* source layers of a group whose schemas are reconciled
MaxBytes == 3       \* length of a remote file, in chunks

----------------------------------------------------------------------------
(* Units returned by each stage's source query.                            *)
(* key   : what the skip decision compares                                 *)
(* path  : where the unit's artifact is written                            *)
(* scope : state code / product name used by --states / --products         *)
(* size  : download only, class of product_file_size                       *)
(* n     : merge only, number of rows of the group in clean_conversion_table *)

Unit(k, p, s, z, n) == [key |-> k, path |-> p, scope |-> s, size |-> z, n |-> n]

\* shapefiles rows: one per community, so a product_name can repeat
D1 == Unit("pA", "dl/s1/c1/pA.zip", "s1", "ok", 0)
D2 == Unit("pA", "dl/s1/c2/pA.zip", "s1", "none", 0)
D3 == Unit("pB", "dl/s2/c3/pB.zip", "s2", "ok", 0)
D4 == Unit("pC", "dl/s1/c0/pC.zip", "s1", "bad", 0)

DownloadEnums == { <<D1, D2, D3>>, <<D4, D3>> }

\* download_log rows with download_success = 1, DISTINCT per zip path
E1 == Unit("dl/s1/c1/pA.zip", "ex/s1/c1/pA", "s1", "ok", 0)
E2 == Unit("dl/s1/c2/pA.zip", "ex/s1/c2/pA", "s1", "ok", 0)
E3 == Unit("dl/s2/c3/pB.zip", "ex/s2/c3/pB", "s2", "ok", 0)

ExtractEnums == { <<E1, E2, E3>> }

\* extraction_06a_log rows
V1 == Unit("ex/pA/a.shp", "gpkg/pA/a.gpkg", "pA", "ok", 0)
V2 == Unit("ex/pA/b.shp", "gpkg/pA/b.gpkg", "pA", "ok", 0)
V3 == Unit("ex/pB/a.shp", "gpkg/pB/a.gpkg", "pB", "ok", 0)

ConvertEnums == { <<V1, V2, V3>> }

\* filename groups, each with its number of source files
G(name, n) == Unit(name, "merged/" \o name \o ".gpkg", name, "ok", n)

\* DEFAULT_FILENAME_GROUPS or --filenames: one group of up to MaxSources files,
\* or two groups, the second of which may have no file at all
MergeEnums ==
    { <<G("s_a", n)>> : n \in 1..MaxSources }
    \cup { <<G("s_a", n1), G("s_b", n2)>> : n1 \in 1..2, n2 \in 0..1 }

StageNames == {"download", "extract", "convert"}

Scopes(us) == { us[i].scope : i \in DOMAIN us }
Paths(us)  == { us[i].path : i \in DOMAIN us }
Keys(us)   == { us[i].key : i \in DOMAIN us }

NoFile == [st |-> "none", gen |-> 0, srcs |-> {}]
File(st, gen, srcs) == [st |-> st, gen |-> gen, srcs |-> srcs]

\* same_dir is not a flag but what the run reads from config.json:
\* processing.extraction_base_path is the same string as download.base_path
NoFlags == [force |-> FALSE, dry |-> FALSE, strict |-> FALSE, targets |-> {},
            same_dir |-> FALSE]

NoPrev == [end |-> "none", pc |-> "idle", plain |-> FALSE, allOk |-> FALSE,
           M |-> 0, N |-> 0, L0 |-> 0, unit |-> <<>>, unsaved |-> {}]

----------------------------------------------------------------------------
(* The checkpoint tables *)

\* n: source_files_count, which merge_06d_log stores as len(files)
Rec(u, ok) == [key |-> u.key, scope |-> u.scope, ok |-> ok, n |-> u.n]

\* SELECT key FROM <log> WHERE success = 1
SucceededKeys(l) == { l[i].key : i \in { j \in DOMAIN l : l[j].ok } }

\* rows of the log for one key, in order
RecordsOf(l, k) == SelectSeq(l, LAMBDA r : r.key = k)

\* the most recent row for the key exists and is a success
LatestOk(l, k) ==
    LET rs == RecordsOf(l, k) IN Len(rs) > 0 /\ rs[Len(rs)].ok

\* variant: only the most recent row of a product counts
get_downloaded_files_latest(l) == { k \in SucceededKeys(l) : LatestOk(l, k) }

get_downloaded_files(l) == SucceededKeys(l)
already_extracted(l) == SucceededKeys(l)
already_converted(l) == SucceededKeys(l)

\* the skip decision of the three log-driven stages
is_done(s, l, k) ==
    CASE s = "download" -> k \in get_downloaded_files(l)
      [] s = "extract"  -> k \in already_extracted(l)
      [] s = "convert"  -> k \in already_converted(l)
      [] OTHER          -> FALSE

\* SELECT product_name, gpkg_path FROM clean_conversion_table WHERE filename = ?
\* the rows of a group, by the product whose directory holds the GeoPackage.
\* 06c copies every success row of conversion_06b_log, and 06b derives the
\* path from product and file name alone, so a path can come back in a
\* later row
get_files_by_filename(u) ==
    [i \in 1..u.n |-> IF i % 2 = 1 THEN "gpkg/pA/" \o u.key \o ".gpkg"
                                   ELSE "gpkg/pB/" \o u.key \o ".gpkg"]

\* the skip decision of merge_gpkg_files: os.path.exists(output_path) and not force_rebuild
output_exists(a, p) == a[p].st # "none"
merge_skips(a, p, force) == output_exists(a, p) /\ ~force

\* variant: the DELETE ignores the targets
clear_logs_all(l, targets) == <<>>

\* DELETE FROM <log> [WHERE scope IN targets]
clear_logs(l, targets) ==
    IF targets = {} THEN <<>>
    ELSE SelectSeq(l, LAMBDA r : r.scope \notin targets)

\* shutil.rmtree of the stage's output directory, or of the targets' directories
remove_outputs(a, us, targets) ==
    [p \in DOMAIN a |->
        IF targets = {} \/ \E i \in DOMAIN us : us[i].path = p /\ us[i].scope \in targets
        THEN NoFile ELSE a[p]]

\* the source query, restricted by --states / --products
Enumerate(us, targets) ==
    IF targets = {} THEN us
    ELSE SelectSeq(us, LAMBDA u : u.scope \in targets)

\* keys a force rebuild with these targets covers
Covered(us, targets) ==
    { us[i].key : i \in { j \in DOMAIN us : targets = {} \/ us[j].scope \in targets } }

\* units left after filtering out those already done
Remaining(s, us, l) == SelectSeq(us, LAMBDA u : ~is_done(s, l, u.key))

----------------------------------------------------------------------------
(* Schema handling of script 06d.  A name is the tuple of its characters.  *)

UpperChars == <<"A", "B", "C", "D", "E", "F", "G", "H", "I", "J", "K", "L", "M",
                "N", "O", "P", "Q", "R", "S", "T", "U", "V", "W", "X", "Y", "Z">>
LowerChars == <<"a", "b", "c", "d", "e", "f", "g", "h", "i", "j", "k", "l", "m",
                "n", "o", "p", "q", "r", "s", "t", "u", "v", "w", "x", "y", "z">>
Digits == {"0", "1", "2", "3", "4", "5", "6", "7", "8", "9"}

Range(q) == { q[i] : i \in DOMAIN q }

\* str.lower(), one character
LowerTable ==
    [c \in Range(UpperChars) |->
        LowerChars[CHOOSE i \in DOMAIN UpperChars : UpperChars[i] = c]]

Lower(c) == IF c \in DOMAIN LowerTable THEN LowerTable[c] ELSE c

LowerName(nm) == [i \in DOMAIN nm |-> Lower(nm[i])]

\* the characters re.sub(r'[^a-z0-9_]', '_', ...) keeps
SafeChars == Range(LowerChars) \cup Digits \cup {"_"}

\* variant: the name is not lower-cased before the replacement
sanitize_field_name_keep_case(field_name) ==
    [i \in DOMAIN field_name |->
        IF field_name[i] \in SafeChars THEN field_name[i] ELSE "_"]

\* field_name.lower(), then re.sub(r'[^a-z0-9_]', '_', field_name)
sanitize_field_name(field_name) ==
    [i \in DOMAIN field_name |->
        LET c == Lower(field_name[i]) IN IF c \in SafeChars THEN c ELSE "_"]

\* pattern in col_lower
Contains(nm, pattern) ==
    \E k \in 0..(Len(nm) - Len(pattern)) :
        \A j \in DOMAIN pattern : nm[k + j] = pattern[j]

filter_patterns ==
    { <<"s", "h", "a", "p", "e", "_", "l", "e", "n">>,
      <<"s", "h", "a", "p", "e", "_", "l", "e", "n", "g", "t", "h">>,
      <<"s", "h", "a", "p", "e", "_", "a", "r", "e", "a">>,
      <<"s", "t", "_", "l", "e", "n", "g", "t", "h">>,
      <<"s", "t", "_", "a", "r", "e", "a">> }

\* variant: the patterns are looked for in the name as written
should_filter_column_as_written(column_name) ==
    \E pattern \in filter_patterns : Contains(column_name, pattern)

\* col_lower = column_name.lower(); any pattern in col_lower
should_filter_column(column_name) ==
    \E pattern \in filter_patterns : Contains(LowerName(column_name), pattern)

\* names of the "name: value" lines of ogrinfo -so that are not columns
NotColumns == { <<"G", "e", "o", "m", "e", "t", "r", "y">>, <<"F", "I", "D">> }

\* the name analyze_schema falls back to when no "Geometry Column" line is found
GeometryDefault == <<"G", "E", "O", "M", "E", "T", "R", "Y">>

\* the column added by the merge to tell a feature's source
product_name == <<"p", "r", "o", "d", "u", "c", "t", "_", "n", "a", "m", "e">>

\* a source layer as ogrinfo describes it: its attribute columns in order and
\* its geometry column, <<>> when no "Geometry Column" line is printed
Layer(cols, geom) == [cols |-> cols, geom |-> geom]

\* the "name: value" lines ogrinfo -so prints above the field list
SummaryLines ==
    << <<"L", "a", "y", "e", "r", " ", "n", "a", "m", "e">>,
       <<"G", "e", "o", "m", "e", "t", "r", "y">> >>

\* variant: without the fallback, the geometry column stays unset (<<>>)
analyze_schema_no_default(layer) ==
    LET lines == SummaryLines \o layer.cols
        kept == SelectSeq(lines, LAMBDA nm :
                    nm # <<>> /\ nm \notin NotColumns /\ ~should_filter_column(nm))
    IN [columns |-> [i \in DOMAIN kept |-> sanitize_field_name(kept[i])],
        geometry_column |-> layer.geom]

\* the (columns, geometry_column) pair analyze_schema returns for a layer
\* whose ogrinfo call succeeds: every line with a ":" is read as a column
analyze_schema(layer) ==
    LET lines == SummaryLines \o layer.cols
        kept == SelectSeq(lines, LAMBDA nm :
                    nm # <<>> /\ nm \notin NotColumns /\ ~should_filter_column(nm))
    IN [columns |-> [i \in DOMAIN kept |-> sanitize_field_name(kept[i])],
        geometry_column |-> IF layer.geom = <<>> THEN GeometryDefault ELSE layer.geom]

\* variant: a column named product_name stays in the set
remove_product_name_skipped(columns) == columns

\* if 'product_name' in all_columns: all_columns.remove('product_name')
remove_product_name(columns) == columns \ {product_name}

\* variant: only the first file's columns make the schema
all_columns_first(file_columns) == Range(file_columns[1]) \ {product_name}

\* all_columns after the update loop and the removal of 'product_name'
all_columns(file_columns) ==
    remove_product_name(UNION { Range(file_columns[i]) : i \in DOMAIN file_columns })

\* the dict geom_col_counts after the counting loop, as its items in insertion
\* order: a name enters at its first occurrence and is counted up afterwards
RECURSIVE geom_col_counts(_)
geom_col_counts(geometry_columns) ==
    IF geometry_columns = <<>> THEN <<>>
    ELSE LET n == Len(geometry_columns)
             counts == geom_col_counts(SubSeq(geometry_columns, 1, n - 1))
             geom_col == geometry_columns[n]
         IN IF \E k \in DOMAIN counts : counts[k][1] = geom_col
            THEN [k \in DOMAIN counts |->
                    IF counts[k][1] = geom_col
                    THEN <<counts[k][1], counts[k][2] + 1>> ELSE counts[k]]
            ELSE Append(counts, <<geom_col, 1>>)

\* max(items, key=lambda x: x[1]): the items are scanned in order and the
\* best one so far is replaced only by an item with a strictly higher count
RECURSIVE max_by_count(_)
max_by_count(items) ==
    IF Len(items) = 1 THEN items[1]
    ELSE LET best == max_by_count(SubSeq(items, 1, Len(items) - 1))
             item == items[Len(items)]
         IN IF item[2] > best[2] THEN item ELSE best

\* variant: among the names with the highest count the last one entered wins
common_geom_col_last(geometry_columns) ==
    LET items == geom_col_counts(geometry_columns)
        k == CHOOSE k \in DOMAIN items :
                /\ \A j \in DOMAIN items : items[j][2] <= items[k][2]
                /\ \A j \in (k + 1)..Len(items) : items[j][2] < items[k][2]
    IN items[k][1]

\* the name that is logged as the geometry column name in use
common_geom_col(geometry_columns) ==
    max_by_count(geom_col_counts(geometry_columns))[1]

\* one term of a SELECT list: expr AS as
Term(kind, from, as) == [kind |-> kind, from |-> from, as |-> as]

\* variant: a column the file does not have is left out of its SELECT list
sql_columns_present_only(order, file_cols, geom_col, source) ==
    <<Term("geom", geom_col, sanitize_field_name(geom_col))>>
    \o [i \in DOMAIN SelectSeq(order, LAMBDA col : col \in Range(file_cols)) |->
          LET col == SelectSeq(order, LAMBDA c : c \in Range(file_cols))[i]
          IN Term("col", col, sanitize_field_name(col))]
    \o <<Term("lit", source, product_name)>>

\* the SELECT list of one file: its geometry column, every column of
\* all_columns in the set's iteration order, and the product name literal
sql_columns(order, file_cols, geom_col, source) ==
    <<Term("geom", geom_col, sanitize_field_name(geom_col))>>
    \o [i \in DOMAIN order |->
          IF order[i] \in Range(file_cols)
          THEN Term("col", order[i], sanitize_field_name(order[i]))
          ELSE Term("null", <<>>, sanitize_field_name(order[i]))]
    \o <<Term("lit", source, product_name)>>

\* the orders in which a Python set of these names can be iterated
RECURSIVE Orders(_)
Orders(S) ==
    IF S = {} THEN {<<>>}
    ELSE UNION { { <<x>> \o q : q \in Orders(S \ {x}) } : x \in S }

\* raw column names as they occur in the source layers
FLD_ZONE   == <<"F", "L", "D", "_", "Z", "O", "N", "E">>
Fld_Zone   == <<"F", "l", "d", "-", "Z", "o", "n", "e">>
Shape_Area == <<"S", "h", "a", "p", "e", "_", "A", "r", "e", "a">>
AREA_SQMI  == <<"A", "R", "E", "A", "_", "S", "Q", "M", "I">>
PRODUCT_NAME == <<"P", "R", "O", "D", "U", "C", "T", "_", "N", "A", "M", "E">>
FID        == <<"F", "I", "D">>
Product_ID == <<"P", "r", "o", "d", "u", "c", "t", " ", "I", "D", "#">>
SHAPE_LEN  == <<"S", "H", "A", "P", "E", ".", "L", "E", "N">>

geom  == <<"g", "e", "o", "m">>
SHAPE == <<"S", "H", "A", "P", "E">>

\* the source layers the groups are made of
Layers ==
    { Layer(<<SHAPE_LEN, FLD_ZONE, Shape_Area>>, geom),
      Layer(<<FID, SHAPE_LEN, AREA_SQMI>>, geom),
      Layer(<<SHAPE_LEN, FLD_ZONE, Shape_Area>>, SHAPE),
      Layer(<<Fld_Zone, PRODUCT_NAME>>, SHAPE),
      Layer(<<Product_ID, FLD_ZONE, Fld_Zone>>, <<>>),
      Layer(<<>>, <<>>) }

\* what get_files_by_filename can return for a group
FileLists == UNION { [1..n -> Layers] : n \in 1..MaxFiles }

NoRecon == [pc |-> "start", file_columns |-> <<>>, geometry_columns |-> <<>>,
            all_columns |-> {}, common_geom_col |-> <<>>, order |-> <<>>,
            sql_columns |-> <<>>]

\* no download_file call is followed
NoFetch == [pc |-> "none"]

\* no cleanup_temporary_files call is followed
NoClean == [pc |-> "none"]

----------------------------------------------------------------------------
(* Initial state: an empty log table and no artifact on disk *)

InitOf(enums, s) ==
    /\ stage = s
    /\ units \in enums
    /\ log = <<>>
    /\ art = [p \in Paths(units) |-> NoFile]
    /\ runs = 0
    /\ pc = "idle"
    /\ flags = NoFlags
    /\ todo = <<>>
    /\ idx = 1
    /\ res = "none"
    /\ tmp = NoFile
    /\ src = 1
    /\ geomNone = {}
    /\ cnt = [ok |-> 0, fail |-> 0]
    /\ tried = {}
    /\ logStart = <<>>
    /\ artStart = art
    /\ moved = {}
    /\ valid = {}
    /\ unsaved = {}
    /\ prev = NoPrev
    /\ files = <<>>
    /\ recon = NoRecon
    /\ fetch = NoFetch
    /\ clean = NoClean

InitStage ==
    \/ InitOf(DownloadEnums, "download")
    \/ InitOf(ExtractEnums, "extract")
    \/ InitOf(ConvertEnums, "convert")

InitMerge == InitOf(MergeEnums, "merge")

Init == InitStage \/ InitMerge

\* what a process start resets
Fresh(f) ==
    /\ runs' = runs + 1
    /\ flags' = f
    /\ idx' = 1
    /\ res' = "none"
    /\ tmp' = NoFile
    /\ src' = 1
    /\ geomNone' = {}
    /\ cnt' = [ok |-> 0, fail |-> 0]
    /\ tried' = {}
    /\ unsaved' = {}
    /\ logStart' = log
    /\ artStart' = art

\* command lines each script accepts
FlagSets(s) ==
    CASE s = "download" -> { NoFlags }
      [] s = "extract"  -> { [force |-> f, dry |-> d, strict |-> FALSE, targets |-> t,
                              same_dir |-> sd] :
                                f \in BOOLEAN, d \in BOOLEAN, t \in {{}, {"s1"}},
                                sd \in BOOLEAN }
      [] s = "convert"  -> { [force |-> f, dry |-> d, strict |-> st, targets |-> t,
                              same_dir |-> FALSE] :
                                f \in BOOLEAN, d \in BOOLEAN, st \in BOOLEAN, t \in {{}, {"pA"}} }
      [] OTHER          -> { [force |-> f, dry |-> FALSE, strict |-> FALSE, targets |-> {},
                              same_dir |-> FALSE] :
                                f \in BOOLEAN }

----------------------------------------------------------------------------
(* main() of scripts 05, 06a and 06b up to the unit loop *)

\* 06a, inside the force-rebuild block: "SAFETY ERROR: Extraction directory
\* same as download directory - ABORTING FORCE REBUILD", return
safety_abort(s, f) == s = "extract" /\ f.force /\ f.same_dir

StartRun(f) ==
    /\ stage \in StageNames
    /\ pc = "idle"
    /\ runs < MaxRuns
    /\ f \in FlagSets(stage)
    /\ Fresh(f)
    /\ LET log1 == IF f.force THEN clear_logs(log, f.targets) ELSE log
           art1 == IF f.force /\ ~safety_abort(stage, f)
                   THEN remove_outputs(art, units, f.targets) ELSE art
       IN /\ log' = log1
          /\ art' = art1
          /\ IF f.dry \/ safety_abort(stage, f)
             THEN /\ todo' = <<>>
                  /\ pc' = "done"
             ELSE /\ todo' = Remaining(stage, Enumerate(units, f.targets), log1)
                  /\ pc' = "loop"
    /\ valid' = IF f.force THEN valid \ Covered(units, f.targets) ELSE valid
    /\ UNCHANGED <<stage, units, files, recon, fetch, clean,
                   moved, prev>>

\* the part of the loop body before the unit's artifact is touched
UnitStart ==
    /\ stage \in StageNames
    /\ pc = "loop"
    /\ idx <= Len(todo)
    /\ LET u == todo[idx] IN
       IF stage = "download" /\ u.size = "bad"
       THEN \* parse_file_size raises ValueError outside any try block
            /\ pc' = "aborted"
            /\ UNCHANGED <<art, res, tried>>
       ELSE /\ tried' = tried \cup {u}
            /\ IF stage = "download" /\ u.size = "ok" /\ art[u.path].st = "full"
               THEN \* download_file: "File already complete"
                    /\ res' = "ok"
                    /\ pc' = "rec"
                    /\ art' = art
               ELSE /\ res' = "none"
                    /\ pc' = "act"
                    /\ art' = IF stage = "extract"
                              THEN [art EXCEPT ![u.path] = File("part", runs, {})]
                              ELSE art
    /\ UNCHANGED <<stage, units, files, recon, fetch, clean,
                   unsaved, log, runs, flags, todo, idx, tmp, src, geomNone,
                   cnt, logStart, artStart, moved, valid, prev>>

\* the unit's action returns: download_file, zip extraction, convert_with_ogr2ogr
UnitFinish(ok, leavesPart) ==
    /\ stage \in StageNames
    /\ pc = "act"
    /\ LET u == todo[idx] IN
       art' = IF ok THEN [art EXCEPT ![u.path] = File("full", runs, {})]
              ELSE IF stage = "download" /\ leavesPart
                   THEN [art EXCEPT ![u.path] = File("part", runs, {})]
                   ELSE art
    /\ res' = IF ok THEN "ok" ELSE "error"
    /\ pc' = "rec"
    /\ UNCHANGED <<stage, units, files, recon, fetch, clean,
                   unsaved, log, runs, flags, todo, idx, tmp, src, geomNone,
                   cnt, tried, logStart, artStart, moved, valid, prev>>

\* variant: only successes are counted
counted_success_only(c, ok) == IF ok THEN [c EXCEPT !.ok = @ + 1] ELSE c

\* the run's counters after a unit's result: one of the two goes up by one
counted(c, ok) == IF ok THEN [c EXCEPT !.ok = @ + 1] ELSE [c EXCEPT !.fail = @ + 1]

\* what the run reports when its loop is over.  06a reports as skipped the
\* enumerated files it filtered out; 06b and 06d count what they enumerate
\* (06b's enumeration leaves out the converted files) and report no skipped;
\* 05 has a skipped counter that stays 0
reported(s) ==
    LET enumerated == IF s = "extract"
                      THEN Len(Enumerate(units, flags.targets)) ELSE Len(todo)
    IN [succeeded |-> cnt.ok, failed |-> cnt.fail,
        skipped |-> IF s = "extract" THEN enumerated - Len(todo) ELSE 0,
        enumerated |-> enumerated]

\* variant: a failure in strict mode is counted and the loop goes on
strict_stop_never(s, f, good) == FALSE

\* 06b: raise StrictModeError("Conversion failed in strict mode")
strict_stop(s, f, good) == s = "convert" /\ f.strict /\ ~good

\* the rows a unit's logging leaves in the table.  db: "ok" every write works,
\* "first" the unit's first INSERT raises, "both" every INSERT of the unit raises
Logged(s, u, r, db) ==
    IF db = "ok" THEN <<Rec(u, r = "ok")>>
    ELSE IF s \in {"extract", "convert"} /\ r = "ok" /\ db = "first"
         THEN \* the except branch logs the store error as the unit's failure
              <<Rec(u, FALSE)>>
         ELSE <<>>

\* the store error leaves the unit's function, and nothing in the loop catches it
Propagates(s, r, db) ==
    /\ db # "ok"
    /\ \/ s = "download"
       \/ s = "extract" /\ (r # "ok" \/ db = "both")

\* INSERT INTO <log> ...; commit; then the loop's bookkeeping
Record(db) ==
    /\ stage \in StageNames
    /\ pc = "rec"
    /\ LET u == todo[idx]
           rows == Logged(stage, u, res, db)
           good == rows # <<>> /\ rows[1].ok
           dies == Propagates(stage, res, db)
           countOk == IF stage = "download" THEN res = "ok" ELSE good
       IN /\ log' = log \o rows
          /\ cnt' = IF dies /\ stage # "download" THEN cnt
                    ELSE counted(cnt, countOk)
          /\ IF dies \/ strict_stop(stage, flags, good)
             THEN \* the store error, or StrictModeError("Conversion failed in strict mode")
                  /\ pc' = "aborted"
                  /\ idx' = idx
             ELSE /\ pc' = "loop"
                  /\ idx' = idx + 1
          /\ valid' = IF good THEN valid \cup {u.key} ELSE valid
          /\ unsaved' = IF db = "ok" THEN unsaved ELSE unsaved \cup {u}
    /\ res' = "none"
    /\ UNCHANGED <<stage, units, files, recon, fetch, clean,
                   art, runs, flags, todo, tmp, src, geomNone,
                   tried, logStart, artStart, moved, prev>>

\* the loop is exhausted: summary, report, return
Finish ==
    /\ pc = "loop"
    /\ idx > Len(todo)
    /\ pc' = "done"
    /\ UNCHANGED <<stage, units, files, recon, fetch, clean,
                   unsaved, log, art, runs, flags, todo, idx, res, tmp, src,
                   geomNone, cnt, tried, logStart, artStart, moved, valid, prev>>

Plain(f) == ~f.force /\ ~f.dry /\ ~f.strict /\ f.targets = {}

Ended(how) ==
    [end |-> how, pc |-> pc, plain |-> Plain(flags), allOk |-> cnt.fail = 0,
     M |-> Len(todo), N |-> idx - 1, L0 |-> Len(logStart),
     unit |-> IF pc \in {"idle", "loop", "done", "aborted"} THEN <<>> ELSE <<todo[idx]>>,
     unsaved |-> unsaved]

\* the process returns, or dies from the uncaught exception
Exit ==
    /\ pc \in {"done", "aborted"}
    /\ prev' = Ended(IF pc = "done" THEN "done" ELSE "abort")
    /\ pc' = "idle"
    /\ UNCHANGED <<stage, units, files, recon, fetch, clean,
                   unsaved, log, art, runs, flags, todo, idx, res, tmp, src,
                   geomNone, cnt, tried, logStart, artStart, moved, valid>>

\* variant: rows are committed only when the run ends, so a kill rolls back
\* what the run has written to the table
CrashUncommitted ==
    /\ pc \notin {"idle", "done", "aborted"}
    /\ prev' = Ended("crash")
    /\ pc' = "idle"
    /\ log' = logStart
    /\ UNCHANGED <<stage, units, files, recon, fetch, clean,
                   unsaved, art, runs, flags, todo, idx, res, tmp, src,
                   geomNone, cnt, tried, logStart, artStart, moved, valid>>

\* the process is killed; what is on disk and in the committed log stays
Crash ==
    /\ pc \notin {"idle", "done", "aborted"}
    /\ prev' = Ended("crash")
    /\ pc' = "idle"
    /\ UNCHANGED <<stage, units, files, recon, fetch, clean,
                   unsaved, log, art, runs, flags, todo, idx, res, tmp, src,
                   geomNone, cnt, tried, logStart, artStart, moved, valid>>

NextStage ==
    \/ \E f \in FlagSets(stage) : StartRun(f)
    \/ UnitStart
    \/ \E ok \in BOOLEAN, part \in BOOLEAN : UnitFinish(ok, part)
    \/ Record("ok")
    \/ Finish
    \/ Exit
    \/ Crash

SpecStage == InitStage /\ [][NextStage]_vars

----------------------------------------------------------------------------
(* Script 06d: main(), process_filename_group() and merge_gpkg_files()     *)

MergeStart(f) ==
    /\ stage = "merge"
    /\ pc = "idle"
    /\ runs < MaxRuns
    /\ f \in FlagSets(stage)
    /\ Fresh(f)
    /\ todo' = units
    /\ pc' = "loop"
    /\ valid' = IF f.force THEN {} ELSE valid
    /\ UNCHANGED <<stage, units, files, recon, fetch, clean,
                   log, art, moved, prev>>

\* variant: a rebuild deletes the existing output before merging
MergeBeginDeletesFirst ==
    /\ stage = "merge"
    /\ pc = "loop"
    /\ idx <= Len(todo)
    /\ LET u == todo[idx] IN
       IF u.n = 0
       THEN \* "No files found": returns False without a log row
            /\ idx' = idx + 1
            /\ cnt' = [cnt EXCEPT !.fail = @ + 1]
            /\ UNCHANGED <<pc, res, tried, art>>
       ELSE IF merge_skips(art, u.path, flags.force)
       THEN \* return False, "Output file already exists"
            /\ res' = "exists"
            /\ pc' = "rec"
            /\ UNCHANGED <<idx, cnt, tried, art>>
       ELSE /\ res' = "none"
            /\ pc' = "analyze"
            /\ tried' = tried \cup {u}
            /\ art' = [art EXCEPT ![u.path] = NoFile]
            /\ UNCHANGED <<idx, cnt>>
    /\ UNCHANGED <<stage, units, files, recon, fetch, clean,
                   unsaved, log, runs, flags, todo, tmp, src, geomNone,
                   logStart, artStart, moved, valid, prev>>

\* process_filename_group up to the first statements of merge_gpkg_files
MergeBegin ==
    /\ stage = "merge"
    /\ pc = "loop"
    /\ idx <= Len(todo)
    /\ LET u == todo[idx] IN
       IF u.n = 0
       THEN \* "No files found": returns False without a log row
            /\ idx' = idx + 1
            /\ cnt' = [cnt EXCEPT !.fail = @ + 1]
            /\ UNCHANGED <<pc, res, tried>>
       ELSE IF merge_skips(art, u.path, flags.force)
       THEN \* return False, "Output file already exists"
            /\ res' = "exists"
            /\ pc' = "rec"
            /\ UNCHANGED <<idx, cnt, tried>>
       ELSE /\ res' = "none"
            /\ pc' = "analyze"
            /\ tried' = tried \cup {u}
            /\ UNCHANGED <<idx, cnt>>
    /\ UNCHANGED <<stage, units, files, recon, fetch, clean,
                   unsaved, log, art, runs, flags, todo, tmp, src, geomNone,
                   logStart, artStart, moved, valid, prev>>

\* the analyze_schema loop and the first projection's geometry term.
\* none: sources for which ogrinfo failed, giving ([], None)
\* exc:  analyze_schema hit its except branch, which returns a bare []
MergeAnalyze(none, exc) ==
    /\ stage = "merge"
    /\ pc = "analyze"
    /\ none \subseteq 1..todo[idx].n
    /\ IF exc \/ 1 \in none
       THEN \* unpacking [] fails, or sanitize_field_name(None) fails
            /\ res' = "error"
            /\ pc' = "rec"
            /\ geomNone' = geomNone
       ELSE /\ res' = "none"
            /\ pc' = "seed"
            /\ geomNone' = none
    /\ UNCHANGED <<stage, units, files, recon, fetch, clean,
                   unsaved, log, art, runs, flags, todo, idx, tmp, src,
                   cnt, tried, logStart, artStart, moved, valid, prev>>

\* variant: the return code of the first ogr2ogr is ignored, as in the append loop
after_seed_lenient(ok) == "append"

\* if result.returncode != 0: return False, result.stderr
after_seed(ok) == IF ok THEN "append" ELSE "rec"

\* variant: ogr2ogr creates the output in place, at the canonical path
MergeSeedInPlace(ok, leavesPart) ==
    /\ stage = "merge"
    /\ pc = "seed"
    /\ IF ok
       THEN /\ tmp' = File("full", runs, {1})
            /\ src' = 2
            /\ res' = "none"
            /\ art' = [art EXCEPT ![todo[idx].path] = File("full", runs, {1})]
       ELSE /\ tmp' = IF leavesPart THEN File("part", runs, {}) ELSE NoFile
            /\ src' = src
            /\ res' = "error"
            /\ art' = art
    /\ pc' = after_seed(ok)
    /\ UNCHANGED <<stage, units, files, recon, fetch, clean,
                   unsaved, log, runs, flags, todo, idx, geomNone,
                   cnt, tried, logStart, artStart, moved, valid, prev>>

\* ogr2ogr creates the temporary output from the first file
MergeSeed(ok, leavesPart) ==
    /\ stage = "merge"
    /\ pc = "seed"
    /\ IF ok
       THEN /\ tmp' = File("full", runs, {1})
            /\ src' = 2
            /\ res' = "none"
       ELSE /\ tmp' = IF leavesPart THEN File("part", runs, {}) ELSE NoFile
            /\ src' = src
            /\ res' = "error"
    /\ pc' = after_seed(ok)
    /\ UNCHANGED <<stage, units, files, recon, fetch, clean,
                   unsaved, log, art, runs, flags, todo, idx, geomNone,
                   cnt, tried, logStart, artStart, moved, valid, prev>>

\* variant: a failed append ends the merge like a failed Seed
MergeAppendStrict(ok) ==
    /\ stage = "merge"
    /\ pc = "append"
    /\ src <= todo[idx].n
    /\ IF src \in geomNone \/ ~ok
       THEN /\ res' = "error"
            /\ pc' = "rec"
            /\ UNCHANGED <<tmp, src>>
       ELSE /\ tmp' = [tmp EXCEPT !.srcs = @ \cup {src}]
            /\ src' = src + 1
            /\ UNCHANGED <<res, pc>>
    /\ UNCHANGED <<stage, units, files, recon, fetch, clean,
                   unsaved, log, art, runs, flags, todo, idx, geomNone,
                   cnt, tried, logStart, artStart, moved, valid, prev>>

\* one iteration of the append loop
MergeAppend(ok) ==
    /\ stage = "merge"
    /\ pc = "append"
    /\ src <= todo[idx].n
    /\ IF src \in geomNone
       THEN \* sanitize_field_name(None) raises; caught by the outer except
            /\ res' = "error"
            /\ pc' = "rec"
            /\ UNCHANGED <<tmp, src>>
       ELSE /\ tmp' = IF ok THEN [tmp EXCEPT !.srcs = @ \cup {src}] ELSE tmp
            /\ src' = src + 1
            /\ UNCHANGED <<res, pc>>
    /\ UNCHANGED <<stage, units, files, recon, fetch, clean,
                   unsaved, log, art, runs, flags, todo, idx, geomNone,
                   cnt, tried, logStart, artStart, moved, valid, prev>>

\* if os.path.exists(output_path): os.remove(output_path)
MergeRemoveOld(ok) ==
    /\ stage = "merge"
    /\ pc = "append"
    /\ src > todo[idx].n
    /\ LET p == todo[idx].path IN
       IF ~output_exists(art, p)
       THEN /\ pc' = "copy"
            /\ UNCHANGED <<art, res>>
       ELSE IF ok
       THEN /\ art' = [art EXCEPT ![p] = NoFile]
            /\ pc' = "copy"
            /\ res' = res
       ELSE /\ art' = art
            /\ res' = "error"
            /\ pc' = "rec"
    /\ UNCHANGED <<stage, units, files, recon, fetch, clean,
                   unsaved, log, runs, flags, todo, idx, tmp, src, geomNone,
                   cnt, tried, logStart, artStart, moved, valid, prev>>

\* shutil.copy2 opens the destination and starts writing
MergeCopyStart ==
    /\ stage = "merge"
    /\ pc = "copy"
    /\ art' = [art EXCEPT ![todo[idx].path] = File("part", runs, {})]
    /\ moved' = moved \cup {todo[idx].path}
    /\ pc' = "copying"
    /\ UNCHANGED <<stage, units, files, recon, fetch, clean,
                   unsaved, log, runs, flags, todo, idx, res, tmp, src,
                   geomNone, cnt, tried, logStart, artStart, valid, prev>>

\* shutil.copy2 returns, or raises with the destination half written
MergeCopyEnd(ok) ==
    /\ stage = "merge"
    /\ pc = "copying"
    /\ IF ok
       THEN /\ art' = [art EXCEPT ![todo[idx].path] = File("full", runs, tmp.srcs)]
            /\ pc' = "rmtmp"
            /\ res' = res
       ELSE /\ art' = art
            /\ res' = "error"
            /\ pc' = "rec"
    /\ UNCHANGED <<stage, units, files, recon, fetch, clean,
                   unsaved, log, runs, flags, todo, idx, tmp, src, geomNone,
                   cnt, tried, logStart, artStart, moved, valid, prev>>

\* os.remove(temp_output); return True, None
MergeRemoveTemp(ok) ==
    /\ stage = "merge"
    /\ pc = "rmtmp"
    /\ tmp' = IF ok THEN NoFile ELSE tmp
    /\ res' = IF ok THEN "ok" ELSE "error"
    /\ pc' = "rec"
    /\ UNCHANGED <<stage, units, files, recon, fetch, clean,
                   unsaved, log, art, runs, flags, todo, idx, src, geomNone,
                   cnt, tried, logStart, artStart, moved, valid, prev>>

\* INSERT INTO merge_06d_log ...; commit; main's counters.
\* db = FALSE: the INSERT or the commit raises, and main re-raises
MergeRecord(db) ==
    /\ stage = "merge"
    /\ pc = "rec"
    /\ IF db
       THEN /\ log' = Append(log, Rec(todo[idx], res = "ok"))
            /\ cnt' = counted(cnt, res = "ok")
            /\ idx' = idx + 1
            /\ pc' = "loop"
            /\ valid' = IF res = "ok" THEN valid \cup {todo[idx].key} ELSE valid
            /\ unsaved' = unsaved
       ELSE /\ pc' = "aborted"
            /\ unsaved' = unsaved \cup {todo[idx]}
            /\ UNCHANGED <<log, cnt, idx, valid>>
    /\ res' = "none"
    /\ UNCHANGED <<stage, units, files, recon, fetch, clean,
                   art, runs, flags, todo, tmp, src, geomNone,
                   tried, logStart, artStart, moved, prev>>

NextMerge ==
    \/ \E f \in FlagSets(stage) : MergeStart(f)
    \/ MergeBegin
    \/ \E none \in SUBSET (1..MaxSources), exc \in BOOLEAN : MergeAnalyze(none, exc)
    \/ \E ok \in BOOLEAN, part \in BOOLEAN : MergeSeed(ok, part)
    \/ \E ok \in BOOLEAN : MergeAppend(ok)
    \/ \E ok \in BOOLEAN : MergeRemoveOld(ok)
    \/ MergeCopyStart
    \/ \E ok \in BOOLEAN : MergeCopyEnd(ok)
    \/ \E ok \in BOOLEAN : MergeRemoveTemp(ok)
    \/ MergeRecord(TRUE)
    \/ Finish
    \/ Exit
    \/ Crash

SpecMerge == InitMerge /\ [][NextMerge]_vars

Next == NextStage \/ NextMerge

Spec == Init /\ [][Next]_vars

\* the same scripts over a log database whose writes can fail: one unit's
\* INSERT raises sqlite3.Error, at most once in two consecutive runs
StoreFault ==
    /\ unsaved = {}
    /\ prev.unsaved = {}
    /\ \/ \E db \in {"first", "both"} : Record(db)
       \/ MergeRecord(FALSE)

NextStore == Next \/ StoreFault

SpecStore == Init /\ [][NextStore]_vars

----------------------------------------------------------------------------
(* Schema reconciliation inside merge_gpkg_files, for one group's files *)

InitSchema ==
    /\ stage = "reconcile"
    /\ units = <<>>
    /\ log = <<>>
    /\ art = [p \in Paths(units) |-> NoFile]
    /\ runs = 0
    /\ pc = "idle"
    /\ flags = NoFlags
    /\ todo = <<>>
    /\ idx = 1
    /\ res = "none"
    /\ tmp = NoFile
    /\ src = 1
    /\ geomNone = {}
    /\ cnt = [ok |-> 0, fail |-> 0]
    /\ tried = {}
    /\ logStart = <<>>
    /\ artStart = art
    /\ moved = {}
    /\ valid = {}
    /\ unsaved = {}
    /\ prev = NoPrev
    /\ files \in FileLists
    /\ recon = NoRecon
    /\ fetch = NoFetch
    /\ clean = NoClean

\* the analysis loop, the removal of 'product_name' and the geometry count
AnalyzeSchemas ==
    /\ stage = "reconcile"
    /\ recon.pc = "start"
    /\ LET fc == [i \in DOMAIN files |-> analyze_schema(files[i]).columns]
           gc == [i \in DOMAIN files |-> analyze_schema(files[i]).geometry_column]
       IN recon' = [recon EXCEPT !.pc = "analyzed",
                                 !.file_columns = fc,
                                 !.geometry_columns = gc,
                                 !.all_columns = all_columns(fc),
                                 !.common_geom_col = common_geom_col(gc)]
    /\ UNCHANGED <<stage, units, log, art, runs, pc, flags, todo, idx, res, tmp,
                   src, geomNone, cnt, tried, logStart, artStart, moved, valid,
                   unsaved, prev, files, fetch, clean>>

\* the SELECT list of the first file and of each appended file; all_columns
\* is iterated in the same order for every file
BuildProjections(order) ==
    /\ stage = "reconcile"
    /\ recon.pc = "analyzed"
    /\ recon' = [recon EXCEPT !.pc = "built",
                              !.order = order,
                              !.sql_columns = [i \in DOMAIN files |->
                                  sql_columns(order, recon.file_columns[i],
                                              recon.geometry_columns[i], i)]]
    /\ UNCHANGED <<stage, units, log, art, runs, pc, flags, todo, idx, res, tmp,
                   src, geomNone, cnt, tried, logStart, artStart, moved, valid,
                   unsaved, prev, files, fetch, clean>>

\* the orders the loops over all_columns can take once the set is built
IterationOrders ==
    IF recon.pc = "analyzed" THEN Orders(recon.all_columns) ELSE {}

NextSchema ==
    \/ AnalyzeSchemas
    \/ \E order \in IterationOrders : BuildProjections(order)

SpecSchema == InitSchema /\ [][NextSchema]_vars

----------------------------------------------------------------------------
(* download_file of scripts 05: one call, on a destination path that may   *)
(* hold what an earlier, interrupted call left there                       *)

\* the bytes of a version of the remote file
Content(version, length) == [i \in 1..length |-> <<version, i>>]

Prefixes(content) == { SubSeq(content, 1, n) : n \in 0..Len(content) }

\* what an interrupted download can have left at the destination path: a
\* part of the file now on the server, or of the file that was there before
LeftBehind(remote) ==
    Prefixes(remote) \cup UNION { Prefixes(Content("old", n)) : n \in 1..MaxBytes }

\* parse_file_size: 0 stands for None, otherwise the size the catalogue states
ExpectedSizes == 0..MaxBytes

InitFetch ==
    /\ stage = "fetch"
    /\ units = <<>>
    /\ log = <<>>
    /\ art = [p \in Paths(units) |-> NoFile]
    /\ runs = 0
    /\ pc = "idle"
    /\ flags = NoFlags
    /\ todo = <<>>
    /\ idx = 1
    /\ res = "none"
    /\ tmp = NoFile
    /\ src = 1
    /\ geomNone = {}
    /\ cnt = [ok |-> 0, fail |-> 0]
    /\ tried = {}
    /\ logStart = <<>>
    /\ artStart = art
    /\ moved = {}
    /\ valid = {}
    /\ unsaved = {}
    /\ prev = NoPrev
    /\ files = <<>>
    /\ recon = NoRecon
    /\ clean = NoClean
    /\ \E length \in 1..MaxBytes, exists \in BOOLEAN, expected_size \in ExpectedSizes :
          \E data \in IF exists THEN LeftBehind(Content("new", length)) ELSE {<<>>} :
              fetch = [pc |-> "start", remote |-> Content("new", length),
                       exists |-> exists, data |-> data, found |-> exists,
                       expected_size |-> expected_size, resume_pos |-> 0,
                       range |-> FALSE, body |-> <<>>, result |-> "none"]

FetchVars == <<stage, units, log, art, runs, pc, flags, todo, idx, res, tmp, src,
               geomNone, cnt, tried, logStart, artStart, moved, valid, unsaved,
               prev, files, recon, clean>>

\* lines 129-135: the size test on an existing file and the Range header
FetchBegin ==
    /\ stage = "fetch"
    /\ fetch.pc = "start"
    /\ IF fetch.exists
       THEN LET resume_pos == Len(fetch.data)
            IN IF fetch.expected_size # 0 /\ resume_pos >= fetch.expected_size
               THEN fetch' = [fetch EXCEPT !.pc = "returned", !.result = "ok",
                                           !.resume_pos = resume_pos]
               ELSE fetch' = [fetch EXCEPT !.pc = "request", !.range = TRUE,
                                           !.resume_pos = resume_pos]
       ELSE fetch' = [fetch EXCEPT !.pc = "request"]
    /\ UNCHANGED FetchVars

\* the status codes the server can answer the request with
Statuses(range, resume_pos, remote) ==
    IF range
    THEN (IF resume_pos < Len(remote) THEN {206} ELSE {416}) \cup {200, 500}
    ELSE {200, 500}

\* lines 137-151: requests.get and the choice of the file mode; open() with
\* mode 'wb' empties the file, with 'ab' it keeps what is there
FetchResponse(status_code) ==
    /\ stage = "fetch"
    /\ fetch.pc = "request"
    /\ status_code \in Statuses(fetch.range, fetch.resume_pos, fetch.remote)
    /\ fetch' =
          IF status_code = 206
          THEN [fetch EXCEPT !.pc = "body", !.exists = TRUE,
                   !.body = SubSeq(fetch.remote, fetch.resume_pos + 1, Len(fetch.remote))]
          ELSE IF status_code = 200
          THEN [fetch EXCEPT !.pc = "body", !.exists = TRUE, !.data = <<>>,
                             !.resume_pos = 0, !.body = fetch.remote]
          ELSE [fetch EXCEPT !.pc = "returned", !.result = "failed"]
    /\ UNCHANGED FetchVars

\* lines 153-155: one chunk is written
FetchChunk ==
    /\ stage = "fetch"
    /\ fetch.pc = "body"
    /\ fetch.body # <<>>
    /\ fetch' = [fetch EXCEPT !.data = Append(@, fetch.body[1]),
                              !.body = Tail(@)]
    /\ UNCHANGED FetchVars

\* lines 165-166: the stream is exhausted
FetchEnd ==
    /\ stage = "fetch"
    /\ fetch.pc = "body"
    /\ fetch.body = <<>>
    /\ fetch' = [fetch EXCEPT !.pc = "returned", !.result = "ok"]
    /\ UNCHANGED FetchVars

\* lines 168-173: the connection breaks while the body is read
FetchBreak ==
    /\ stage = "fetch"
    /\ fetch.pc = "body"
    /\ fetch.body # <<>>
    /\ fetch' = [fetch EXCEPT !.pc = "returned", !.result = "failed"]
    /\ UNCHANGED FetchVars

NextFetch ==
    \/ FetchBegin
    \/ \E status_code \in {200, 206, 416, 500} : FetchResponse(status_code)
    \/ FetchChunk
    \/ FetchEnd
    \/ FetchBreak

SpecFetch == InitFetch /\ [][NextFetch]_vars

----------------------------------------------------------------------------
(* cleanup_temporary_files of script 06a.  A directory is the tuple of its *)
(* path components; the three configured paths are any of Dirs.            *)

Dirs == { <<"data">>, <<"data", "dl">>, <<"data", "ex">>, <<"data", "tmp">>, <<"tmp">> }

\* dir is directory top or lies below it
Within(dir, top) ==
    /\ Len(top) <= Len(dir)
    /\ SubSeq(dir, 1, Len(top)) = top

\* every directory on the way down to dir
Ancestors(dir) == { SubSeq(dir, 1, n) : n \in 1..Len(dir) }

InitClean ==
    /\ stage = "cleanup"
    /\ units = <<>>
    /\ log = <<>>
    /\ art = [p \in Paths(units) |-> NoFile]
    /\ runs = 0
    /\ pc = "idle"
    /\ flags = NoFlags
    /\ todo = <<>>
    /\ idx = 1
    /\ res = "none"
    /\ tmp = NoFile
    /\ src = 1
    /\ geomNone = {}
    /\ cnt = [ok |-> 0, fail |-> 0]
    /\ tried = {}
    /\ logStart = <<>>
    /\ artStart = art
    /\ moved = {}
    /\ valid = {}
    /\ unsaved = {}
    /\ prev = NoPrev
    /\ files = <<>>
    /\ recon = NoRecon
    /\ fetch = NoFetch
    /\ \E temp_dir \in Dirs \cup {<<>>}, download_dir \in Dirs, extraction_dir \in Dirs,
          temp_exists \in BOOLEAN :
          clean = [pc |-> "start", temp_dir |-> temp_dir,
                   download_dir |-> download_dir, extraction_dir |-> extraction_dir,
                   tree |-> Ancestors(download_dir) \cup Ancestors(extraction_dir)
                            \cup (IF temp_exists THEN Ancestors(temp_dir) ELSE {})]

CleanVars == <<stage, units, log, art, runs, pc, flags, todo, idx, res, tmp, src,
               geomNone, cnt, tried, logStart, artStart, moved, valid, unsaved,
               prev, files, recon, fetch>>

\* the test of line 461 and of line 462
cleanup_applies(c) ==
    /\ c.temp_dir # <<>>
    /\ c.temp_dir # c.download_dir
    /\ c.temp_dir # c.extraction_dir
    /\ c.temp_dir \in c.tree

\* shutil.rmtree(temp_dir): the directory goes with all that is below it
CleanupRemoves ==
    /\ stage = "cleanup"
    /\ clean.pc = "start"
    /\ cleanup_applies(clean)
    /\ clean' = [clean EXCEPT !.pc = "done",
                    !.tree = { d \in @ : ~Within(d, clean.temp_dir) }]
    /\ UNCHANGED CleanVars

\* shutil.rmtree raises part way: what it removed before stays removed, the
\* directory itself stays
CleanupFails(gone) ==
    /\ stage = "cleanup"
    /\ clean.pc = "start"
    /\ cleanup_applies(clean)
    /\ gone \subseteq { d \in clean.tree : Within(d, clean.temp_dir) /\ d # clean.temp_dir }
    /\ \A d \in gone : \A e \in clean.tree : Within(e, d) => e \in gone
    /\ clean' = [clean EXCEPT !.pc = "done", !.tree = @ \ gone]
    /\ UNCHANGED CleanVars

\* the test fails: nothing is done
CleanupSkips ==
    /\ stage = "cleanup"
    /\ clean.pc = "start"
    /\ ~cleanup_applies(clean)
    /\ clean' = [clean EXCEPT !.pc = "done"]
    /\ UNCHANGED CleanVars

NextClean ==
    \/ CleanupRemoves
    \/ \E gone \in SUBSET Dirs : CleanupFails(gone)
    \/ CleanupSkips

SpecClean == InitClean /\ [][NextClean]_vars

----------------------------------------------------------------------------
(* Properties *)

UnitSet == { units[i] : i \in DOMAIN units }

\* C1: whenever a merge is not inside its final copy call (so before it,
\* after it returned or raised, and after the process was killed at any
\* step), the canonical output path of a group holds either no file or a
\* completely written merged file, never a partially written one.
C1_OutputNeverPartial ==
    (stage = "merge" /\ pc # "copying")
    => \A p \in DOMAIN art : art[p].st \in {"none", "full"}

C3_NoOutputBeforeMove ==
    stage = "merge" => \A p \in DOMAIN art : p \notin moved => ~output_exists(art, p)

\* the process was killed after Seed, in the append loop, and the output path
\* of the group it was merging holds no file
C3_Witness ==
    /\ stage = "merge"
    /\ pc = "idle"
    /\ prev.end = "crash"
    /\ prev.pc = "append"
    /\ tmp.st = "full"
    /\ ~output_exists(art, prev.unit[1].path)

\* C4: the skip decision for a key is true exactly when the most recent log
\* row for that key is a success.
C4_DoneIffLatestSucceeded ==
    stage \in StageNames =>
        \A k \in Keys(units) : is_done(stage, log, k) <=> LatestOk(log, k)

\* the skip decision as a function of what is on disk and in the log
Skips(u) ==
    IF stage = "merge" THEN output_exists(art, u.path)
    ELSE is_done(stage, log, u.key)

\* C5: a key for which a success row was written stays skipped, through any
\* later rows and runs, until a force rebuild covering the key is run.
C5_DoneUntilInvalidated ==
    \A u \in UnitSet : u.key \in valid => Skips(u)

\* a failure row was written for a key after its success row, and the key is
\* still skipped
C5_Witness ==
    \E k \in valid :
        /\ Len(RecordsOf(log, k)) > 1
        /\ ~LatestOk(log, k)
        /\ is_done(stage, log, k)

\* C6: a plain run that directly follows a completed plain run without
\* failures adds no log row and writes no artifact.
C6_SecondRunNoEffects ==
    (pc # "idle" /\ Plain(flags) /\ prev.end = "done" /\ prev.plain /\ prev.allOk)
    => (log = logStart /\ art = artStart)

\* C7: merging, without rebuild, a group whose output exists and whose latest
\* log row is a success changes neither the output nor the group's log rows.
C7_RemergeIsNoOp ==
    (stage = "merge" /\ pc # "idle" /\ ~flags.force)
    => \A u \in UnitSet :
          (artStart[u.path].st = "full" /\ LatestOk(logStart, u.key))
          => /\ art[u.path] = artStart[u.path]
             /\ RecordsOf(log, u.key) = RecordsOf(logStart, u.key)
             /\ LatestOk(log, u.key)

\* C8: when a plain run over M units is killed between units after N units,
\* all succeeded, the next plain run loops over exactly M - N units and ends
\* with as many log rows as the uninterrupted run would have written.
C8_ResumeProcessesRemaining ==
    (/\ stage \in StageNames
     /\ pc = "done" /\ Plain(flags)
     /\ prev.end = "crash" /\ prev.pc = "loop" /\ prev.plain /\ prev.allOk)
    => /\ Len(todo) = prev.M - prev.N
       /\ Len(log) = prev.L0 + prev.M

\* C9: a unit that was being processed when the process was killed is, by
\* the end of the next plain run, either covered by a success row or has
\* been processed again in that run.
C9_KilledUnitIsRetried ==
    (pc = "done" /\ Plain(flags) /\ prev.end = "crash" /\ prev.unit # <<>>)
    => \/ prev.unit[1] \in tried
       \/ prev.unit[1].key \in SucceededKeys(log)

\* C10: a run that was not asked to stop at the first error (--strict) is
\* never ended by one unit's failure: when it ends, every unit it had to
\* process has been attempted.
C10_FailureNeverAborts ==
    (stage \in StageNames /\ pc \in {"done", "aborted"} /\ ~flags.strict)
    => \A i \in DOMAIN todo : todo[i] \in tried

\* C11: every unit a run has finished processing (the loop moved on to the
\* next unit) got exactly one new log row in that step: a success row if its
\* action succeeded, a failure row otherwise.
C11_AttemptEndsWithOneRecord ==
    [][ (pc # "idle" /\ idx' = idx + 1)
        => log' = Append(log, Rec(todo[idx], res = "ok")) ]_vars

\* C12: a row is in the committed table from the moment its record call has
\* returned, so at any later point of the run, and after the process is
\* killed, the table holds a success row for every key recorded as succeeded
\* and one row for every unit the run has counted.
C12_RecordsDurable ==
    /\ \A k \in valid : k \in SucceededKeys(log)
    /\ (stage \in StageNames /\ ~flags.force)
       => Len(log) = Len(logStart) + cnt.ok + cnt.fail
    /\ stage = "merge" => Len(log) >= Len(logStart) + cnt.ok

\* the process was killed between two units after a unit had been recorded
\* as succeeded, and the next run has left that unit out of its work list
C12_Witness ==
    /\ stage \in StageNames
    /\ pc = "loop"
    /\ Plain(flags)
    /\ prev.end = "crash"
    /\ prev.pc = "loop"
    /\ prev.N >= 1
    /\ prev.allOk
    /\ Len(todo) < Len(units)

\* the success rows of a log table, in order
SuccessRows(l) == SelectSeq(l, LAMBDA r : r.ok)

\* C13: a step in which the write of a unit's log row fails adds no success
\* row, and by the end of the next plain run that unit has been processed
\* again, unless a success row already covered its key when that run began.
C13_UnsavedUnitIsRetried ==
    [][ /\ (unsaved' # unsaved /\ unsaved' # {})
           => SuccessRows(log') = SuccessRows(log)
        /\ (pc' = "done" /\ Plain(flags'))
           => \A u \in prev'.unsaved :
                 u \in tried' \/ u.key \in SucceededKeys(logStart') ]_vars

\* C14: the start of a force rebuild of the extract or convert stage, with or
\* without --states / --products, leaves no row of the stage's table within
\* the scope, so that no key of the scope is skipped any more, and keeps the
\* rows outside the scope as they were, in order.
C14_InvalidateScoped ==
    [][ (stage \in StageNames /\ pc = "idle" /\ pc' # "idle" /\ flags'.force)
        => LET t == flags'.targets
               InScope(r) == t = {} \/ r.scope \in t
           IN /\ \A i \in DOMAIN log' : ~InScope(log'[i])
              /\ SelectSeq(log', LAMBDA r : ~InScope(r))
                    = SelectSeq(log, LAMBDA r : ~InScope(r))
              /\ \A k \in Covered(units, t) : ~is_done(stage, log', k) ]_vars

\* a force rebuild restricted to some states or products has just deleted
\* rows and kept others
C14_Witness ==
    /\ stage \in StageNames
    /\ pc \in {"loop", "done"}
    /\ idx = 1
    /\ flags.force
    /\ flags.targets # {}
    /\ Len(log) > 0
    /\ Len(log) < Len(logStart)

\* C15: the start of a run, and so the invalidation a force rebuild begins
\* with, removes no complete artifact of an earlier run (the scripts
\* have no separate confirmation that would allow the removal).
C15_InvalidateKeepsArtifacts ==
    [][ (stage \in StageNames /\ pc = "idle" /\ pc' # "idle")
        => \A p \in DOMAIN art : art[p].st = "full" => art'[p] = art[p] ]_vars

\* C16: when the first ogr2ogr call (Seed) of a group fails, the merge goes
\* straight to its result without any append, the output path is not written
\* and still holds what it held when the run started, and the group's row is
\* a failure row.
C16_SeedFailureFailsGroup ==
    [][ /\ (stage = "merge" /\ pc = "seed" /\ pc' # "idle" /\ tmp'.st # "full")
           => /\ pc' = "rec"
              /\ res' = "error"
              /\ src' = src
              /\ moved' = moved
              /\ art' = art
              /\ art[todo[idx].path] = artStart[todo[idx].path]
        /\ (stage = "merge" /\ pc = "rec" /\ res = "error" /\ pc' = "loop")
           => /\ log' = Append(log, Rec(todo[idx], FALSE))
              /\ art' = art ]_vars

\* a rebuild of a group whose output exists failed at Seed, leaving a
\* truncated temp file: the failure is logged and the old output is in place
C16_Witness ==
    /\ stage = "merge"
    /\ flags.force
    /\ pc = "loop"
    /\ idx = 2
    /\ tmp.st = "part"
    /\ log # <<>>
    /\ log[Len(log)] = Rec(todo[1], FALSE)
    /\ art[todo[1].path].st = "full"
    /\ art[todo[1].path] = artStart[todo[1].path]

\* C17: once Seed has succeeded, an append whose ogr2ogr call fails (the
\* source's schema was read, the temp output gains nothing) only moves the
\* loop to the next source: the merge is not ended, its result so far is
\* kept, and the temp output stays the one to be published.
C17_AppendFailureContinues ==
    [][ (/\ stage = "merge" /\ pc = "append" /\ src <= todo[idx].n
         /\ src \notin geomNone /\ pc' # "idle" /\ tmp' = tmp)
        => /\ pc' = "append"
           /\ src' = src + 1
           /\ res' = res
           /\ tmp.st = "full" ]_vars

\* a group of three sources whose second append failed was merged, published
\* with the first and third source, and logged as merged
C17_Witness ==
    /\ stage = "merge"
    /\ pc = "loop"
    /\ idx = 2
    /\ todo[1].n = 3
    /\ art[todo[1].path] = File("full", runs, {1, 3})
    /\ log # <<>>
    /\ log[Len(log)] = Rec(todo[1], TRUE)

\* C18: when the second of a group's three sources failed to append, the
\* published output holds sources 1 and 3, and the result logged for the
\* group reports as many sources as the output holds, so that the failed
\* source is told apart from the merged ones.
C18_ResultNamesFailedSources ==
    (/\ stage = "merge" /\ pc = "loop" /\ idx > 1 /\ log # <<>>
     /\ todo[idx - 1].n = 3
     /\ log[Len(log)] = Rec(todo[idx - 1], TRUE)
     /\ art[todo[idx - 1].path] = File("full", runs, {1, 3}))
    => log[Len(log)].n = Cardinality(art[todo[idx - 1].path].srcs)

\* C19: once the schemas of a group's files are analysed, the canonical column
\* set holds every column analyze_schema returned for every file, and so the
\* sanitized name of every column line of every file that is not denylisted,
\* except the reserved product name column.
C19_CanonicalIsSuperset ==
    recon.pc # "start" =>
        \A i \in DOMAIN files :
            /\ Range(recon.file_columns[i]) \ {product_name} \subseteq recon.all_columns
            /\ \A j \in DOMAIN files[i].cols :
                  LET raw == files[i].cols[j]
                      col == sanitize_field_name(raw)
                  IN (raw \notin NotColumns /\ ~should_filter_column(raw) /\ col # product_name)
                         => col \in recon.all_columns

\* two files were analysed and the second brings a kept column the first lacks
C19_Witness ==
    /\ recon.pc = "analyzed"
    /\ Len(files) = 2
    /\ \E c \in Range(recon.file_columns[2]) :
          /\ c \notin Range(recon.file_columns[1])
          /\ c # product_name
          /\ c \in recon.all_columns
    /\ \E j \in DOMAIN files[1].cols : should_filter_column(files[1].cols[j])

\* C20: in the SELECT list built for each file of a group, every canonical
\* column is the output name of exactly one term, which reads the column when
\* the file has it and is an explicit NULL when it has not.
C20_ProjectionTotal ==
    recon.pc = "built" =>
        \A i \in DOMAIN files : \A col \in recon.all_columns :
            LET sel == recon.sql_columns[i]
                at == { k \in DOMAIN sel :
                          sel[k].kind \in {"col", "null"} /\ sel[k].as = col }
            IN /\ Cardinality(at) = 1
               /\ \A k \in at :
                     IF col \in Range(recon.file_columns[i])
                     THEN sel[k].kind = "col" /\ sel[k].from = col
                     ELSE sel[k].kind = "null"

\* two files were projected; one canonical column is read from the first file
\* and is an explicit NULL for the second
C20_Witness ==
    /\ recon.pc = "built"
    /\ Len(files) = 2
    /\ \E col \in recon.all_columns :
          /\ \E k \in DOMAIN recon.sql_columns[1] :
                recon.sql_columns[1][k] = Term("col", col, col)
          /\ \E k \in DOMAIN recon.sql_columns[2] :
                recon.sql_columns[2][k] = Term("null", <<>>, col)

\* C21: the SELECT list of every file of a group gives its geometry term the
\* group's one canonical geometry column name as output name (the most
\* common name, as reported or sanitized), whatever the file's own geometry
\* column is called.
C21_GeometryRenamedToCanonical ==
    recon.pc = "built" =>
        \A i \in DOMAIN files :
            LET term == recon.sql_columns[i][1]
            IN /\ term.kind = "geom"
               /\ term.as \in { recon.common_geom_col,
                                sanitize_field_name(recon.common_geom_col) }

\* position of the first file whose geometry column is g
FirstSeen(geometry_columns, g) ==
    CHOOSE i \in DOMAIN geometry_columns :
        /\ geometry_columns[i] = g
        /\ \A j \in 1..(i - 1) : geometry_columns[j] # g

\* number of files whose geometry column is g
Occurrences(geometry_columns, g) ==
    Cardinality({ i \in DOMAIN geometry_columns : geometry_columns[i] = g })

\* C22: the canonical geometry column name of a group is a geometry column
\* name of one of its files, no other name occurs in more files, and every
\* other name occurring in as many files was first seen later in file order.
C22_CanonicalGeometryIsMostCommon ==
    recon.pc # "start" =>
        LET gcs == recon.geometry_columns
            c == recon.common_geom_col
        IN /\ c \in Range(gcs)
           /\ \A g \in Range(gcs) :
                 /\ Occurrences(gcs, g) <= Occurrences(gcs, c)
                 /\ (g # c /\ Occurrences(gcs, g) = Occurrences(gcs, c))
                        => FirstSeen(gcs, c) < FirstSeen(gcs, g)

\* three files were analysed: the name of the first file is outvoted by the
\* name the two others share
C22_Witness ==
    /\ recon.pc = "analyzed"
    /\ Len(files) = 3
    /\ recon.geometry_columns = <<SHAPE, geom, geom>>
    /\ recon.common_geom_col = geom

\* the names of a list of column lists in the order of their first occurrence
RECURSIVE FirstSeenOrder(_)
FirstSeenOrder(file_columns) ==
    IF file_columns = <<>> THEN <<>>
    ELSE LET n == Len(file_columns)
             before == FirstSeenOrder(SubSeq(file_columns, 1, n - 1))
             cols == file_columns[n]
             new == SelectSeq(cols, LAMBDA c : c \notin Range(before))
             firsts == { j \in DOMAIN new : \A k \in 1..(j - 1) : new[k] # new[j] }
         IN before \o [j \in 1..Cardinality(firsts) |->
                new[CHOOSE m \in firsts :
                        Cardinality({ f \in firsts : f <= m }) = j]]

\* C23: the projections are a function of the ordered list of files alone:
\* however often and in whichever process they are built, the canonical
\* columns are laid out in the order in which they are first seen across the
\* files.
C23_ColumnsInFirstSeenOrder ==
    recon.pc = "built" =>
        recon.order = SelectSeq(FirstSeenOrder(recon.file_columns),
                                LAMBDA c : c # product_name)

\* the column of a layer a quoted name in a SELECT list refers to: SQL matches
\* column names without regard to case
Resolves(name, column) == LowerName(name) = LowerName(column)

\* C24: for every column of a file that is taken into the canonical schema,
\* the file's SELECT list has a term whose output name is the canonical name
\* and which reads the file's real column; when several real columns of the
\* file sanitize to that canonical name, the term reads the last of them.
C24_ProjectionReadsRealColumn ==
    recon.pc = "built" =>
        \A i \in DOMAIN files : \A j \in DOMAIN files[i].cols :
            LET cols == files[i].cols
                col == sanitize_field_name(cols[j])
                last == CHOOSE m \in DOMAIN cols :
                            /\ sanitize_field_name(cols[m]) = col
                            /\ \A k \in (m + 1)..Len(cols) :
                                  sanitize_field_name(cols[k]) # col
            IN (cols[j] \notin NotColumns /\ col \in recon.all_columns) =>
                   \E k \in DOMAIN recon.sql_columns[i] :
                       /\ recon.sql_columns[i][k].kind = "col"
                       /\ recon.sql_columns[i][k].as = col
                       /\ Resolves(recon.sql_columns[i][k].from, cols[last])

OnDenylist(name) ==
    \E pattern \in filter_patterns : Contains(LowerName(name), pattern)

C27_DefaultGeometryName ==
    \A i \in DOMAIN files :
        files[i].geom = <<>> =>
            /\ recon.pc # "start" =>
                  /\ recon.geometry_columns[i] = GeometryDefault
                  /\ recon.geometry_columns[i] # <<>>
                  /\ \A j \in DOMAIN files[i].cols :
                        LET raw == files[i].cols[j]
                        IN (raw \notin NotColumns /\ ~OnDenylist(raw))
                               => sanitize_field_name(raw) \in Range(recon.file_columns[i])
            /\ recon.pc = "built" =>
                  /\ recon.sql_columns[i][1] =
                        Term("geom", GeometryDefault, sanitize_field_name(GeometryDefault))
                  /\ Len(recon.sql_columns[i]) = Cardinality(recon.all_columns) + 2

\* the projections were built for a group whose second file has columns but
\* no reported geometry column, next to a file with the geometry column geom
C27_Witness ==
    /\ recon.pc = "built"
    /\ Len(files) >= 2
    /\ files[1].geom = geom
    /\ files[2].geom = <<>>
    /\ files[2].cols # <<>>
    /\ recon.geometry_columns[2] = GeometryDefault
    /\ Len(recon.file_columns[2]) > 1

\* C28: a source whose schema cannot be read does not fail its group: the
\* analysis is followed by the Seed step, and in the append loop such a
\* source is passed over, nothing of it appended, and the loop goes on.
C28_UnreadableSourceIsExcluded ==
    [][ /\ (stage = "merge" /\ pc = "analyze" /\ pc' \notin {"analyze", "idle"})
            => (pc' = "seed" /\ res' # "error")
        /\ (stage = "merge" /\ pc = "append" /\ src <= todo[idx].n
               /\ src \in geomNone /\ pc' # "idle")
            => (pc' = "append" /\ src' = src + 1 /\ tmp' = tmp /\ res' = res)
      ]_vars

\* C29: no column named product_name is taken into the canonical columns,
\* and the SELECT list of every file has exactly one term whose output name
\* is product_name: the literal that identifies the file's source.
C29_OneProvenanceColumn ==
    /\ recon.pc # "start" => product_name \notin recon.all_columns
    /\ recon.pc = "built" =>
          \A i \in DOMAIN files :
              LET sel == recon.sql_columns[i]
                  at == { k \in DOMAIN sel : sel[k].as = product_name }
              IN /\ Cardinality(at) = 1
                 /\ \A k \in at : sel[k] = Term("lit", i, product_name)

\* the projections were built for two files, one of which has its own
\* column PRODUCT_NAME
C29_Witness ==
    /\ recon.pc = "built"
    /\ Len(files) = 2
    /\ PRODUCT_NAME \in Range(files[1].cols)
    /\ product_name \in Range(recon.file_columns[1])
    /\ recon.sql_columns[2][Len(recon.sql_columns[2])] = Term("lit", 2, product_name)

\* C30: within one run of a stage no unit key is attempted twice: the unit
\* whose processing starts has a key that no unit tried earlier in the run has.
C30_KeyAttemptedOnce ==
    [][ (stage \in StageNames /\ pc = "loop" /\ tried' # tried)
            => \A u \in tried : u.key # todo[idx].key ]_vars

\* C31: a call of download_file that finds a file left at the destination and
\* reports success leaves there exactly the bytes a fresh full download of
\* the remote file gives: never a shorter or longer file, nor parts of two
\* different files.
C31_SuccessMeansIdentical ==
    (fetch.pc = "returned" /\ fetch.found /\ fetch.result = "ok")
        => (fetch.exists /\ fetch.data = fetch.remote)

C33_DryRunChangesNothing ==
    [][ (stage \in StageNames /\ pc' # "idle" /\ flags'.dry)
            => (log' = log /\ art' = art) ]_vars

\* C34: in a strict conversion run the first failed unit ends the run: the
\* run is aborted with that one failure counted, no unit after it has been
\* started, and nothing but the end of the process follows.
C34_StrictStopsAtFirstFailure ==
    [][ (stage = "convert" /\ flags.strict /\ pc # "idle") =>
           /\ (pc = "rec" /\ res # "ok" /\ pc' # "idle") =>
                 (pc' = "aborted" /\ cnt'.fail = 1 /\ tried' = tried)
           /\ cnt.fail >= 1 =>
                 /\ pc = "aborted"
                 /\ pc' \in {"aborted", "idle"}
                 /\ \A k \in (idx + 1)..Len(todo) : todo[k] \notin tried
      ]_vars

\* a strict conversion run was stopped by its first unit's failure with two
\* units still to go
C34_Witness ==
    /\ stage = "convert"
    /\ flags.strict
    /\ pc = "aborted"
    /\ idx = 1
    /\ Len(todo) = 3
    /\ cnt = [ok |-> 0, fail |-> 1]
    /\ tried = {todo[1]}
    /\ log # <<>> /\ ~log[Len(log)].ok

\* C35: whatever the three configured paths are, after the cleanup the
\* download directory and the extraction directory are still there.
C35_CleanupKeepsDownloads ==
    clean.pc = "done" =>
        /\ clean.download_dir \in clean.tree
        /\ clean.extraction_dir \in clean.tree

\* C36: in every state of every stage, a unit whose key has a success row in
\* the stage's log table has its artifact completely written at its final
\* path: the row is written after the artifact and does not outlive it.
C36_SuccessRecordHasArtifact ==
    \A u \in UnitSet :
        u.key \in SucceededKeys(log) => art[u.path].st = "full"

\* C37: a merged output holds the rows of each source GeoPackage (distinct
\* path) of its group at most once, even when the group's file list names
\* the same path in more than one row.
C37_SourceProjectedOnce ==
    \A u \in UnitSet :
        stage = "merge" =>
            \A i, j \in art[u.path].srcs :
                get_files_by_filename(u)[i] = get_files_by_filename(u)[j] => i = j

\* C38: an extraction run whose force rebuild is refused because the
\* extraction directory is the download directory ends with the log table and
\* the files as they were when it started.
C38_RefusedRebuildChangesNothing ==
    [][ (stage = "extract" /\ pc = "idle" /\ pc' # "idle" /\ safety_abort(stage, flags'))
        => (log' = log /\ art' = art) ]_vars

\* C39: no name of the canonical column set of a group contains one of the
\* denylisted patterns shape_len, shape_length, shape_area, st_length, st_area.
C39_CanonicalNamesOffDenylist ==
    recon.pc # "start" => \A col \in recon.all_columns : ~OnDenylist(col)

====
